---- MODULE Spec2Model ----
(***************************************************************************)
(* Model of voice_app.py: a single-threaded voice assistant.  The session  *)
(* loop captures a transcript (listen_for_command), interprets it          *)
(* (process_command, which speaks through speak) and stops on the "exit"   *)
(* directive, on KeyboardInterrupt or on any fault reaching the loop.      *)
(*                                                                         *)
(* The microphone, the recognizer, the transcription service, the TTS      *)
(* engine, the clock and the random source are the environment: every      *)
(* call to them is an input drawn from the outcomes the library can        *)
(* produce (a value, an exception class, or KeyboardInterrupt delivered    *)
(* while the call blocks).  Console output (print) is assumed not to fail. *)
(* A KeyboardInterrupt aborts the call it is delivered in; the properties  *)
(* about what a function returns or a handler does are about the calls     *)
(* that run to completion.                                                 *)
(***************************************************************************)
EXTENDS Integers, Sequences, FiniteSets, TLC

VARIABLES pc, command, exit_signal, exc, console, diag, iter, exitCode,
          call, probe

vars == <<pc, command, exit_signal, exc, console, diag, iter, exitCode,
          call, probe>>

(***************************************************************************)
(* Bounds of the model.                                                    *)
(***************************************************************************)
\* number of loop iterations explored (the loop itself is unbounded)
MaxIter == 2
\* number of process_command invocations compared in the interpreter harness
MaxCalls == 3

(***************************************************************************)
(* Values.                                                                 *)
(***************************************************************************)
\* Python's None (no transcript, no directive); no lowercased text equals it
None == "<None>"
\* no exception raised
NoExc == "none"

\* exception classes the environment can raise; all but KeyboardInterrupt
\* derive from Exception
ExceptionClasses ==
    {"Exception", "RuntimeError", "OSError", "WaitTimeoutError",
     "UnknownValueError", "RequestError", "ImportError"}

IsException(e) == e \in ExceptionClasses

\* outcome of tts_engine.say / runAndWait
TtsOutcomes == {"ok", "RuntimeError", "Exception", "KeyboardInterrupt"}

(***************************************************************************)
(* Utterances (the texts passed to speak).                                 *)
(***************************************************************************)
ACTIVATION == "Voice assistant activated. How can I assist you?"
GREETING == "Hello there! How can I help you today?"
IDENTITY == "I am a simple voice assistant based on Python."
FAREWELL == "Goodbye! Have a great day."
FALLBACK == "Sorry, I didn't quite catch that. Could you please repeat?"
OOPS == "Oops, something went wrong while processing your request."
OUT_OF_JOKES == "I'm out of jokes right now!"
SERVICE_APOLOGY ==
    "Sorry, I'm having trouble connecting to the speech recognition service."
SHUTTING_DOWN == "Shutting down."
RESTART_ME == "An unexpected error occurred. Please restart me."

jokes ==
    << "Why don't scientists trust atoms? Because they make up everything!",
       "Why did the scarecrow win an award? Because he was outstanding in his field!",
       "What do you call fake spaghetti? An impasta!",
       "Why did the bicycle fall over? Because it was two tired!" >>

\* diagnostics printed to the console (not spoken)
SYNTH_RUNTIME_ERROR == "Error during speech synthesis (RuntimeError)"
SYNTH_ERROR == "Error during speech synthesis"
NO_SPEECH == "No speech detected within the timeout period."
CAPTURE_ERROR == "Error capturing audio"
NOT_UNDERSTOOD == "Sorry, I could not understand the audio."
REQUEST_FAILED == "Could not request results from Google Speech Recognition service"
RECOGNITION_ERROR == "An unexpected error occurred during recognition"
PROCESSING_ERROR == "An error occurred while processing the command"
INTERRUPTED == "Exiting program via Keyboard Interrupt."
MAIN_LOOP_ERROR == "An unexpected error occurred in the main loop"
PROGRAM_TERMINATED == "Program terminated."

(***************************************************************************)
(* str.lower and the substring test `pat in s`.                            *)
(***************************************************************************)
UpperCase == "ABCDEFGHIJKLMNOPQRSTUVWXYZ"
LowerCase == "abcdefghijklmnopqrstuvwxyz"

LowerChar(c) ==
    IF \E i \in 1..Len(UpperCase) : SubSeq(UpperCase, i, i) = c
    THEN LET i == CHOOSE j \in 1..Len(UpperCase) : SubSeq(UpperCase, j, j) = c
         IN  SubSeq(LowerCase, i, i)
    ELSE c

RECURSIVE Lower(_)
Lower(s) ==
    IF Len(s) = 0 THEN ""
    ELSE LowerChar(SubSeq(s, 1, 1)) \o Lower(SubSeq(s, 2, Len(s)))

\* Python: pat in s
Contains(pat, s) ==
    \E i \in 1..(Len(s) - Len(pat) + 1) : SubSeq(s, i, i + Len(pat) - 1) = pat

(***************************************************************************)
(* datetime.now().strftime("%I:%M %p")                                     *)
(***************************************************************************)
Digits == "0123456789"
Pad2(n) == SubSeq(Digits, (n \div 10) + 1, (n \div 10) + 1)
           \o SubSeq(Digits, (n % 10) + 1, (n % 10) + 1)

Hour12(h) == IF h % 12 = 0 THEN 12 ELSE h % 12

FormatTime(now) ==
    Pad2(Hour12(now.hour)) \o ":" \o Pad2(now.minute) \o " "
    \o (IF now.hour < 12 THEN "AM" ELSE "PM")

(***************************************************************************)
(* Inputs of the environment.                                              *)
(***************************************************************************)
\* what the transcription service can return (before .lower())
Words ==
    {"Hello", "hi", "hey", "what time is it", "current time",
     "what is your name", "Tell me a joke", "Goodbye", "exit", "quit",
     "STOP", "this", "purple elephant dance"}

SecondWords == {"Hello", "STOP"}

RawTexts ==
    {""} \cup Words \cup {a \o " " \o b : a \in Words, b \in SecondWords}

\* the transcripts listen_for_command can return
Transcripts == {Lower(t) : t \in RawTexts}

\* readings of the clock
Clock == {[hour |-> 0, minute |-> 5], [hour |-> 15, minute |-> 30]}

\* the random source behind random.choice
RandomSource == 0..3

(***************************************************************************)
(* speak (lines 41-51): echo, then synthesis; Exception classes are        *)
(* swallowed with a diagnostic, anything else propagates.                  *)
(* io = [console |-> "AI:" lines, diag |-> diagnostic lines].              *)
(***************************************************************************)
Log(io, line) == [io EXCEPT !.diag = Append(@, line)]

\* speak whose except clauses log the synthesis error and re-raise it
SpeakReraises(io, text, tts) ==
    LET echoed == [io EXCEPT !.console = Append(@, text)]
    IN  IF tts = "ok"
        THEN [io |-> echoed, raised |-> NoExc]
        ELSE IF tts = "RuntimeError"
        THEN [io |-> Log(echoed, SYNTH_RUNTIME_ERROR), raised |-> tts]
        ELSE IF IsException(tts)
        THEN [io |-> Log(echoed, SYNTH_ERROR), raised |-> tts]
        ELSE [io |-> echoed, raised |-> tts]

Speak(io, text, tts) ==
    LET echoed == [io EXCEPT !.console = Append(@, text)]
    IN  IF tts = "ok"
        THEN [io |-> echoed, raised |-> NoExc]
        ELSE IF tts = "RuntimeError"
        THEN [io |-> Log(echoed, SYNTH_RUNTIME_ERROR),
              raised |-> NoExc]
        ELSE IF IsException(tts)
        THEN [io |-> Log(echoed, SYNTH_ERROR),
              raised |-> NoExc]
        ELSE [io |-> echoed, raised |-> tts]

(***************************************************************************)
(* listen_for_command (lines 53-95).                                       *)
(* env = [mic, adj, lis, rec, heard, tts]: outcome of sr.Microphone(),     *)
(* adjust_for_ambient_noise, listen, recognize_google (with the text it    *)
(* returns) and of the synthesis of the service apology.                   *)
(* Result: [io, ret, raised].                                              *)
(***************************************************************************)
\* recognize step that also apologises aloud for unintelligible audio
RecognizeSpeaksOnUnknownValue(io, env) ==
    LET io1 == Log(io, "Recognizing...")
    IN  IF env.rec = "ok"
        THEN [io |-> Log(io1, "You said"), ret |-> Lower(env.heard),
              raised |-> NoExc]
        ELSE IF env.rec \in {"UnknownValueError", "RequestError"}
        THEN LET s == Speak(Log(io1, IF env.rec = "RequestError"
                                     THEN REQUEST_FAILED ELSE NOT_UNDERSTOOD),
                            SERVICE_APOLOGY, "ok")
             IN  [io |-> s.io, ret |-> None, raised |-> s.raised]
        ELSE IF IsException(env.rec)
        THEN [io |-> Log(io1, RECOGNITION_ERROR), ret |-> None,
              raised |-> NoExc]
        ELSE [io |-> io1, ret |-> None, raised |-> env.rec]

Recognize(io, env) ==
    LET io1 == Log(io, "Recognizing...")
    IN  IF env.rec = "ok"
        THEN [io |-> Log(io1, "You said"), ret |-> Lower(env.heard),
              raised |-> NoExc]
        ELSE IF env.rec = "UnknownValueError"
        THEN [io |-> Log(io1, NOT_UNDERSTOOD),
              ret |-> None, raised |-> NoExc]
        ELSE IF env.rec = "RequestError"
        THEN LET s == Speak(Log(io1, REQUEST_FAILED),
                            SERVICE_APOLOGY, env.tts)
             IN  [io |-> s.io, ret |-> None, raised |-> s.raised]
        ELSE IF IsException(env.rec)
        THEN [io |-> Log(io1, RECOGNITION_ERROR),
              ret |-> None, raised |-> NoExc]
        ELSE [io |-> io1, ret |-> None, raised |-> env.rec]

Capture(io, env) ==
    IF env.lis = "ok"
    THEN Recognize(io, env)
    ELSE IF env.lis = "WaitTimeoutError"
    THEN [io |-> Log(io, NO_SPEECH),
          ret |-> None, raised |-> NoExc]
    ELSE IF IsException(env.lis)
    THEN [io |-> Log(io, CAPTURE_ERROR), ret |-> None,
          raised |-> NoExc]
    ELSE [io |-> io, ret |-> None, raised |-> env.lis]

listen_for_command(io, env) ==
    IF env.mic # "ok"
    THEN [io |-> io, ret |-> None, raised |-> env.mic]
    ELSE LET io1 == Log(io, "Listening...")
         IN  IF env.adj = "ok"
             THEN Capture(io1, env)
             ELSE IF IsException(env.adj)
             THEN Capture(Log(io1, "Warning: Could not adjust for ambient noise"),
                          env)
             ELSE [io |-> io1, ret |-> None, raised |-> env.adj]

\* the outcomes of one capture; "-" marks a call that is not reached
NotReached == "-"

RecognizeEnvs ==
    {[rec |-> r, heard |-> "", tts |-> NotReached] :
        r \in {"UnknownValueError", "Exception", "KeyboardInterrupt"}}
    \cup {[rec |-> "RequestError", heard |-> "", tts |-> t] : t \in TtsOutcomes}
    \cup {[rec |-> "ok", heard |-> h, tts |-> NotReached] : h \in RawTexts}

CaptureEnvs ==
    {[lis |-> l, rec |-> NotReached, heard |-> "", tts |-> NotReached] :
        l \in {"WaitTimeoutError", "Exception", "KeyboardInterrupt"}}
    \cup {[lis |-> "ok", rec |-> r.rec, heard |-> r.heard, tts |-> r.tts] :
            r \in RecognizeEnvs}

ListenEnvs ==
    {[mic |-> "OSError", adj |-> NotReached, lis |-> NotReached,
      rec |-> NotReached, heard |-> "", tts |-> NotReached],
     [mic |-> "ok", adj |-> "KeyboardInterrupt", lis |-> NotReached,
      rec |-> NotReached, heard |-> "", tts |-> NotReached]}
    \cup {[mic |-> "ok", adj |-> a, lis |-> c.lis, rec |-> c.rec,
           heard |-> c.heard, tts |-> c.tts] :
            a \in {"ok", "Exception"}, c \in CaptureEnvs}

(***************************************************************************)
(* process_command (lines 97-133).                                         *)
(* env = [fault, now, rand, tts, tts2]: a fault raised while the rules are *)
(* evaluated (before the response is spoken), the clock, the random        *)
(* source, and the synthesis outcome of the response and of the "Oops"     *)
(* utterance (reached only after a fault).  Result: [io, ret, raised].     *)
(***************************************************************************)
IsGreeting(c) == Contains("hello", c) \/ Contains("hi", c) \/ Contains("hey", c)
IsTime(c) == Contains("what time is it", c) \/ Contains("current time", c)
IsName(c) == Contains("what is your name", c)
IsJoke(c) == Contains("tell me a joke", c)
\* farewell rule that has lost the "stop" keyword
IsFarewellWithoutStop(c) ==
    Contains("goodbye", c) \/ Contains("exit", c) \/ Contains("quit", c)

IsFarewell(c) ==
    Contains("goodbye", c) \/ Contains("exit", c) \/ Contains("quit", c)
    \/ Contains("stop", c)

TimeUtterance(now) == "The current time is " \o FormatTime(now)

\* random.choice(jokes)
Choice(seq, rand) == seq[(rand % Len(seq)) + 1]

\* jokes told in rotation: the choice depends on the turns already taken
JokeUtteranceInRotation(rand) == Choice(jokes, rand + iter)

JokeUtterance(rand) ==
    IF Len(jokes) > 0 THEN Choice(jokes, rand) ELSE OUT_OF_JOKES

\* speak(text) as a statement of the try body, followed by `return ret`
Say(io, text, tts, ret) ==
    LET s == Speak(io, text, tts)
    IN  [io |-> s.io, ret |-> IF s.raised = NoExc THEN ret ELSE None,
         raised |-> s.raised]

\* the try body with the farewell rule tested first
RespondFarewellFirst(io, c, env) ==
    IF env.fault # NoExc
    THEN [io |-> io, ret |-> None, raised |-> env.fault]
    ELSE IF IsFarewell(c) THEN Say(io, FAREWELL, env.tts, "exit")
    ELSE IF IsGreeting(c) THEN Say(io, GREETING, env.tts, None)
    ELSE IF IsTime(c) THEN Say(io, TimeUtterance(env.now), env.tts, None)
    ELSE IF IsName(c) THEN Say(io, IDENTITY, env.tts, None)
    ELSE IF IsJoke(c) THEN Say(io, JokeUtterance(env.rand), env.tts, None)
    ELSE Say(io, FALLBACK, env.tts, None)

\* the try body, lines 104-127
Respond(io, c, env) ==
    IF env.fault # NoExc
    THEN [io |-> io, ret |-> None, raised |-> env.fault]
    ELSE IF IsGreeting(c) THEN Say(io, GREETING, env.tts, None)
    ELSE IF IsTime(c) THEN Say(io, TimeUtterance(env.now), env.tts, None)
    ELSE IF IsName(c) THEN Say(io, IDENTITY, env.tts, None)
    ELSE IF IsJoke(c) THEN Say(io, JokeUtterance(env.rand), env.tts, None)
    ELSE IF IsFarewell(c) THEN Say(io, FAREWELL, env.tts, "exit")
    ELSE Say(io, FALLBACK, env.tts, None)

\* process_command without the `command is None` guard: the substring test
\* on None raises TypeError inside the try
process_command_without_none_guard(io, c, env) ==
    LET body == IF c = None
                THEN [io |-> io, ret |-> None, raised |-> "Exception"]
                ELSE Respond(io, c, env)
    IN  IF body.raised = NoExc
        THEN body
        ELSE IF IsException(body.raised)
        THEN Say(Log(body.io, PROCESSING_ERROR), OOPS, env.tts2, None)
        ELSE body

\* process_command whose except clause re-raises after logging
process_command_reraising(io, c, env) ==
    IF c = None
    THEN [io |-> io, ret |-> None, raised |-> NoExc]
    ELSE LET body == Respond(io, c, env)
         IN  IF body.raised = NoExc
             THEN body
             ELSE [io |-> Log(body.io, PROCESSING_ERROR), ret |-> None,
                   raised |-> body.raised]

process_command(io, c, env) ==
    IF c = None
    THEN [io |-> io, ret |-> None, raised |-> NoExc]
    ELSE LET body == Respond(io, c, env)
         IN  IF body.raised = NoExc
             THEN body
             ELSE IF IsException(body.raised)
             THEN Say(Log(body.io, PROCESSING_ERROR),
                      OOPS, env.tts2, None)
             ELSE body

ProcessEnvs ==
    {[fault |-> NoExc, now |-> n, rand |-> r, tts |-> t, tts2 |-> "ok"] :
        n \in Clock, r \in RandomSource, t \in TtsOutcomes}
    \cup {[fault |-> "Exception", now |-> [hour |-> 0, minute |-> 0], rand |-> 0,
           tts |-> NotReached, tts2 |-> t] : t \in TtsOutcomes}

(***************************************************************************)
(* The program: initialization (lines 17-37) and the main loop             *)
(* (lines 136-155).                                                        *)
(*   pc          position: "init", "activate", "listen", "process",        *)
(*               "check", "raised" (an exception reached the loop's try),  *)
(*               "terminated" (line 155 printed), "exited" (the process    *)
(*               ended by sys.exit(1) or an uncaught exception)            *)
(*   console     the "AI:" lines echoed by speak, in order                 *)
(*   diag        the other console lines printed in the current iteration  *)
(*               (cleared when the iteration ends)                         *)
(*   iter        number of captures started                                *)
(*   call, probe records of process_command invocations, used only by the  *)
(*               interpreter harness                                       *)
(***************************************************************************)
IO == [console |-> console, diag |-> diag]

Init ==
    /\ pc = "init"
    /\ command = None
    /\ exit_signal = None
    /\ exc = NoExc
    /\ console = << >>
    /\ diag = << >>
    /\ iter = 0
    /\ exitCode = "running"
    /\ call = None
    /\ probe = None

\* lines 17-37: a failing initialization prints and calls sys.exit(1)
Initialization ==
    /\ pc = "init"
    /\ \E r \in {"ok", "ImportError", "Exception"} :
          IF r = "ok"
          THEN /\ pc' = "activate"
               /\ UNCHANGED <<diag, exitCode>>
          ELSE /\ pc' = "exited"
               /\ diag' = Append(diag, IF r = "ImportError"
                                       THEN "Error importing a required library"
                                       ELSE "Error initializing libraries")
               /\ exitCode' = "1"
    /\ UNCHANGED <<command, exit_signal, exc, console, iter, call, probe>>

\* line 137, outside the loop's try: an interrupt here is not caught
Activate ==
    /\ pc = "activate"
    /\ \E tts \in TtsOutcomes :
          LET s == Speak(IO, ACTIVATION, tts)
          IN  /\ console' = s.io.console
              /\ diag' = s.io.diag
              /\ IF s.raised = NoExc
                 THEN /\ pc' = "listen"
                      /\ UNCHANGED <<exc, exitCode>>
                 ELSE /\ pc' = "exited"
                      /\ exc' = s.raised
                      /\ exitCode' = "1"
    /\ UNCHANGED <<command, exit_signal, iter, call, probe>>

\* line 140
Listen ==
    /\ pc = "listen"
    /\ iter < MaxIter
    /\ iter' = iter + 1
    /\ \E env \in ListenEnvs :
          LET r == listen_for_command([console |-> console, diag |-> << >>], env)
          IN  /\ console' = r.io.console
              /\ diag' = r.io.diag
              /\ IF r.raised = NoExc
                 THEN /\ command' = r.ret
                      /\ pc' = "process"
                      /\ UNCHANGED exc
                 ELSE /\ exc' = r.raised
                      /\ pc' = "raised"
                      /\ UNCHANGED command
    /\ UNCHANGED <<exit_signal, exitCode, call, probe>>

\* line 141
Process ==
    /\ pc = "process"
    /\ \E env \in ProcessEnvs :
          LET r == process_command(IO, command, env)
          IN  /\ console' = r.io.console
              /\ diag' = r.io.diag
              /\ IF r.raised = NoExc
                 THEN /\ exit_signal' = r.ret
                      /\ pc' = "check"
                      /\ UNCHANGED exc
                 ELSE /\ exc' = r.raised
                      /\ pc' = "raised"
                      /\ UNCHANGED exit_signal
    /\ UNCHANGED <<command, iter, exitCode, call, probe>>

\* the exit test comparing against the wrong directive: the loop never breaks
CheckExitNeverBreaks ==
    /\ pc = "check"
    /\ pc' = "listen"
    /\ diag' = << >>
    /\ UNCHANGED <<command, exit_signal, exc, console, iter, exitCode, call,
                   probe>>

\* lines 142-143, then line 155 after the break
CheckExit ==
    /\ pc = "check"
    /\ IF exit_signal = "exit"
       THEN /\ pc' = "terminated"
            /\ diag' = Append(diag, PROGRAM_TERMINATED)
            /\ exitCode' = "0"
       ELSE /\ pc' = "listen"
            /\ diag' = << >>
            /\ UNCHANGED exitCode
    /\ UNCHANGED <<command, exit_signal, exc, console, iter, call, probe>>

\* an except clause of the main loop: print, speak, break, then line 155;
\* an exception raised by the clause's own speak is caught by nothing
Handler(line, text) ==
    \E tts \in TtsOutcomes :
       LET s == Speak(Log(IO, line), text, tts)
       IN  /\ console' = s.io.console
           /\ IF s.raised = NoExc
              THEN /\ pc' = "terminated"
                   /\ diag' = Append(s.io.diag, PROGRAM_TERMINATED)
                   /\ exc' = NoExc
                   /\ exitCode' = "0"
              ELSE /\ pc' = "exited"
                   /\ diag' = s.io.diag
                   /\ exc' = s.raised
                   /\ exitCode' = "1"

\* an except clause that ends in `continue` instead of `break`
HandlerContinues(line, text) ==
    \E tts \in TtsOutcomes :
       LET s == Speak(Log(IO, line), text, tts)
       IN  /\ console' = s.io.console
           /\ IF s.raised = NoExc
              THEN /\ pc' = "listen"
                   /\ diag' = << >>
                   /\ exc' = NoExc
                   /\ UNCHANGED exitCode
              ELSE /\ pc' = "exited"
                   /\ diag' = s.io.diag
                   /\ exc' = s.raised
                   /\ exitCode' = "1"

ExceptKeyboardInterruptContinues ==
    /\ pc = "raised"
    /\ exc = "KeyboardInterrupt"
    /\ HandlerContinues(INTERRUPTED, SHUTTING_DOWN)
    /\ UNCHANGED <<command, exit_signal, iter, call, probe>>

ExceptExceptionContinues ==
    /\ pc = "raised"
    /\ exc # "KeyboardInterrupt"
    /\ IsException(exc)
    /\ HandlerContinues(MAIN_LOOP_ERROR, RESTART_ME)
    /\ UNCHANGED <<command, exit_signal, iter, call, probe>>

\* lines 144-147
ExceptKeyboardInterrupt ==
    /\ pc = "raised"
    /\ exc = "KeyboardInterrupt"
    /\ Handler(INTERRUPTED, SHUTTING_DOWN)
    /\ UNCHANGED <<command, exit_signal, iter, call, probe>>

\* lines 148-153
ExceptException ==
    /\ pc = "raised"
    /\ exc # "KeyboardInterrupt"
    /\ IsException(exc)
    /\ Handler(MAIN_LOOP_ERROR, RESTART_ME)
    /\ UNCHANGED <<command, exit_signal, iter, call, probe>>

Next ==
    \/ Initialization
    \/ Activate
    \/ Listen
    \/ Process
    \/ CheckExit
    \/ ExceptKeyboardInterrupt
    \/ ExceptException

Spec == Init /\ [][Next]_vars

(***************************************************************************)
(* Interpreter harness: process_command applied repeatedly, each time on a *)
(* fresh console, to transcripts listen_for_command can return.  probe     *)
(* keeps the record of the first invocation, call that of the latest one;  *)
(* iter counts the invocations.                                            *)
(***************************************************************************)
HarnessTranscripts ==
    {Lower(t) : t \in {"Hello", "what time is it", "Tell me a joke", "STOP",
                       "purple elephant dance"}}

\* the harness delivers no interrupt while process_command runs
HarnessEnvs ==
    {e \in ProcessEnvs : e.tts # "KeyboardInterrupt" /\ e.tts # "Exception"
                         /\ e.tts2 = "ok"}

InitInterp ==
    /\ pc = "process"
    /\ command \in HarnessTranscripts
    /\ exit_signal = None
    /\ exc = NoExc
    /\ console = << >>
    /\ diag = << >>
    /\ iter = 0
    /\ exitCode = "running"
    /\ call = None
    /\ probe = None

Invoke ==
    /\ pc = "process"
    /\ iter < MaxCalls
    /\ iter' = iter + 1
    /\ \E env \in HarnessEnvs :
          LET r == process_command([console |-> << >>, diag |-> << >>],
                                   command, env)
              rec == [command |-> command, now |-> env.now, rand |-> env.rand,
                      said |-> r.io.console, ret |-> r.ret, raised |-> r.raised,
                      faulted |-> env.fault # NoExc]
          IN  /\ console' = r.io.console
              /\ diag' = r.io.diag
              /\ exit_signal' = r.ret
              /\ exc' = r.raised
              /\ call' = rec
              /\ probe' = IF iter = 0 THEN rec ELSE probe
    /\ \E c \in HarnessTranscripts : command' = c
    /\ UNCHANGED <<pc, exitCode>>

NextInterp == Invoke

SpecInterp == InitInterp /\ [][NextInterp]_vars

(***************************************************************************)
(* Properties.                                                             *)
(***************************************************************************)
Count(x, seq) == Cardinality({i \in 1..Len(seq) : seq[i] = x})
Printed(line, lines) == \E i \in 1..Len(lines) : lines[i] = line
Last(seq) == seq[Len(seq)]

\* the patterns of the rules, as the spec lists them
HasGreetingWord(c) == \E w \in {"hello", "hi", "hey"} : Contains(w, c)
HasTimePhrase(c) == \E w \in {"what time is it", "current time"} : Contains(w, c)
HasNamePhrase(c) == Contains("what is your name", c)
HasJokePhrase(c) == Contains("tell me a joke", c)
HasFarewellWord(c) ==
    \E w \in {"goodbye", "exit", "quit", "stop"} : Contains(w, c)

\* process_command has just returned to the loop from a present transcript,
\* without a fault during rule evaluation
Returned == pc = "process" /\ command # None /\ pc' = "check"
ReturnedFaultFree == Returned /\ ~Printed(PROCESSING_ERROR, diag')

\* C1 as stated: whenever process_command returns (fault-free) on a
\* transcript that contains "goodbye", "exit", "quit" or "stop" anywhere, it
\* has spoken the farewell once and returns "exit", and the loop then exits.
C1_AnyFarewellWordTerminates ==
    /\ [][ReturnedFaultFree /\ HasFarewellWord(command)
            => /\ exit_signal' = "exit"
               /\ console' = Append(console, FAREWELL)]_vars
    /\ [][pc = "check" /\ HasFarewellWord(command)
            => pc' = "terminated" /\ console' = console]_vars

\* C1 (amended): whenever process_command returns (fault-free) on a
\* transcript that contains a farewell word and no pattern of the greeting,
\* time, name or joke rule, it has spoken the farewell exactly once and
\* returns "exit"; the loop then exits without speaking again.
C1_UnshadowedFarewellTerminates ==
    /\ [][ReturnedFaultFree /\ HasFarewellWord(command)
          /\ ~HasGreetingWord(command) /\ ~HasTimePhrase(command)
          /\ ~HasNamePhrase(command) /\ ~HasJokePhrase(command)
            => /\ exit_signal' = "exit"
               /\ console' = Append(console, FAREWELL)
               /\ Count(FAREWELL, console') = 1]_vars
    /\ [][pc = "check" /\ exit_signal = "exit"
            => pc' = "terminated" /\ console' = console]_vars

C1_Witness ==
    /\ pc = "terminated"
    /\ command = "purple elephant dance stop"
    /\ exit_signal = "exit"
    /\ Last(console) = FAREWELL

\* the utterances and the directive of the first rule whose pattern the
\* transcript contains
ExpectedUtterances(c) ==
    IF HasGreetingWord(c) THEN {GREETING}
    ELSE IF HasTimePhrase(c)
    THEN {"The current time is " \o FormatTime(n) : n \in Clock}
    ELSE IF HasNamePhrase(c) THEN {IDENTITY}
    ELSE IF HasJokePhrase(c) THEN {jokes[i] : i \in 1..Len(jokes)}
    ELSE IF HasFarewellWord(c) THEN {FAREWELL}
    ELSE {FALLBACK}

ExpectedDirective(c) ==
    IF /\ ~HasGreetingWord(c) /\ ~HasTimePhrase(c) /\ ~HasNamePhrase(c)
       /\ ~HasJokePhrase(c) /\ HasFarewellWord(c)
    THEN "exit" ELSE None

\* C2: first match wins over substring containment: whenever
\* process_command returns (fault-free) on a present transcript, it has
\* spoken exactly the utterance of the first rule, in the order greeting,
\* time, name, joke, farewell, whose pattern the transcript contains (the
\* fallback if none, the empty transcript included), and returns that
\* rule's directive.
C2_FirstMatchWins ==
    [][ReturnedFaultFree
         => /\ \E u \in ExpectedUtterances(command) :
                  console' = Append(console, u)
            /\ exit_signal' = ExpectedDirective(command)]_vars

C2_Witness ==
    /\ pc = "check"
    /\ command = "goodbye hello"
    /\ Last(console) = GREETING
    /\ exit_signal = None

\* C3: process_command on an absent transcript speaks nothing and returns
\* None, and the loop then goes back to capturing without speaking.
C3_AbsentTranscriptIsSilent ==
    /\ [][pc = "process" /\ command = None
            => /\ pc' = "check"
               /\ exit_signal' = None
               /\ console' = console]_vars
    /\ [][pc = "check" /\ command = None
            => pc' = "listen" /\ console' = console]_vars

C3_Witness ==
    /\ pc = "check"
    /\ command = None
    /\ Printed(NO_SPEECH, diag)
    /\ console = <<ACTIVATION>>

\* C4: the activation greeting is spoken exactly once, before the first
\* capture; interpretation is entered only from a capture and a capture is
\* started only after activation or a completed interpretation that did not
\* return "exit"; once "exit" is returned there is no further capture,
\* interpretation or utterance.
C4_LoopOrder ==
    /\ [](pc \notin {"init", "activate", "exited"}
            => Count(ACTIVATION, console) = 1 /\ console[1] = ACTIVATION)
    /\ [](iter > 0 => Count(ACTIVATION, console) = 1 /\ console[1] = ACTIVATION)
    /\ [][pc' = "process" => pc = "listen" /\ iter' = iter + 1]_vars
    /\ [][iter' # iter => pc = "listen" /\ pc' \in {"process", "raised"}]_vars
    /\ [][pc' = "listen"
            => pc = "activate" \/ (pc = "check" /\ exit_signal # "exit")]_vars
    /\ [][exit_signal = "exit"
            => /\ pc = "check" /\ pc' = "terminated"
               /\ iter' = iter /\ console' = console
               /\ command' = command /\ exit_signal' = exit_signal]_vars

C4_Witness ==
    /\ pc = "terminated"
    /\ exit_signal = "exit"
    /\ iter = 2
    /\ Len(console) = 3
    /\ console[1] = ACTIVATION
    /\ console[3] = FAREWELL

\* C5: a KeyboardInterrupt raised during capture or interpretation reaches
\* the loop's except clause; the clause speaks "Shutting down." exactly once
\* and no further iteration starts; when that utterance returns the program
\* reaches its last line and ends normally (exit code 0).  Only a further
\* interrupt during the shutdown utterance itself, which nothing catches, ends
\* the process otherwise.
C5_InterruptShutsDown ==
    /\ [][(pc \in {"listen", "process"}) /\ exc' = "KeyboardInterrupt"
            => (pc' = "raised")]_vars
    /\ [][pc = "raised" /\ exc = "KeyboardInterrupt"
            => /\ console' = Append(console, SHUTTING_DOWN)
               /\ Count(SHUTTING_DOWN, console') = 1
               /\ iter' = iter
               /\ \/ pc' = "terminated" /\ exitCode' = "0"
                  \/ pc' = "exited" /\ exc' = "KeyboardInterrupt" ]_vars
    /\ [][(pc \in {"terminated", "exited"}) => FALSE]_vars
    /\ [](Count(SHUTTING_DOWN, console) > 0 => pc \in {"terminated", "exited"})

C5_Witness ==
    /\ pc = "terminated"
    /\ exitCode = "0"
    /\ Printed(INTERRUPTED, diag)
    /\ iter = 1
    /\ console = <<ACTIVATION, GREETING, SHUTTING_DOWN>>

\* C6: every exception that reaches the loop from listen_for_command or
\* process_command is handled by one of its except clauses; for a fault (an
\* Exception, such as a failure to open the microphone) the clause speaks
\* the "please restart me" apology and the loop ends: no capture follows.
C6_FaultFailsFast ==
    /\ [](pc = "raised" => exc = "KeyboardInterrupt" \/ IsException(exc))
    /\ [][pc = "raised" /\ IsException(exc)
            => /\ console' = Append(console, RESTART_ME)
               /\ iter' = iter
               /\ pc' \in {"terminated", "exited"}]_vars
    /\ [][Count(RESTART_ME, console) > 0 => FALSE]_vars

C6_Witness ==
    /\ pc = "terminated"
    /\ Printed(MAIN_LOOP_ERROR, diag)
    /\ iter = 1
    /\ console = <<ACTIVATION, RESTART_ME>>

\* a capture that ended in a silent failure has printed one of these
SilentFailures == {NO_SPEECH, CAPTURE_ERROR, NOT_UNDERSTOOD, RECOGNITION_ERROR}

\* C7: listen_for_command maps every failure it handles to None.  After a
\* timeout, a capture error, unintelligible audio or an unexpected
\* recognition failure it returns None having spoken nothing; after a
\* service error it has spoken the apology exactly once and, when it
\* returns, returns None.  An iteration whose capture returned None goes on
\* to the next capture: the loop does not terminate.
C7_FailuresMapToAbsence ==
    /\ [][pc = "listen" /\ (\E f \in SilentFailures : Printed(f, diag'))
            => /\ pc' = "process"
               /\ command' = None
               /\ console' = console]_vars
    /\ [][pc = "listen" /\ Printed(REQUEST_FAILED, diag')
            => /\ console' = Append(console, SERVICE_APOLOGY)
               /\ pc' = "process" => command' = None
               /\ pc' # "process" => exc' = "KeyboardInterrupt" ]_vars
    /\ [][(pc \in {"process", "check"}) /\ command = None
            => pc' \in {"check", "listen"}]_vars

C7_Witness ==
    /\ pc = "check"
    /\ command = None
    /\ exit_signal = None
    /\ Printed(REQUEST_FAILED, diag)
    /\ console = <<ACTIVATION, SERVICE_APOLOGY>>

SynthesisErrors(lines) ==
    Count(SYNTH_RUNTIME_ERROR, lines) + Count(SYNTH_ERROR, lines)

\* the synthesis engine failed inside a speak call of this step
SynthesisFailed ==
    SynthesisErrors(diag') > (IF pc = "listen" THEN 0 ELSE SynthesisErrors(diag))

\* where each step goes when nothing is raised
NormalNext ==
    IF pc = "activate" THEN {"listen"}
    ELSE IF pc = "listen" THEN {"process"}
    ELSE IF pc = "process" THEN {"check"}
    ELSE {"terminated"}

\* C8: a step in which the synthesis engine fails (RuntimeError or another
\* Exception) still echoes the text, raises nothing and continues where a
\* successful step does; process_command's directive is the one that goes
\* with the echoed utterance ("exit" exactly for the farewell).
C8_SynthesisFailureIsHarmless ==
    [][SynthesisFailed
         => /\ Len(console') = Len(console) + 1
            /\ pc' \in NormalNext
            /\ exc' = NoExc
            /\ pc = "process" =>
                  /\ (exit_signal' = "exit") <=> (Last(console') = FAREWELL)
                  /\ Last(console') \in ExpectedUtterances(command) \cup {OOPS}]_vars

C8_Witness ==
    /\ pc = "terminated"
    /\ exit_signal = "exit"
    /\ Last(console) = FAREWELL
    /\ Printed(SYNTH_RUNTIME_ERROR, diag)

\* C9: a fault raised while the rules are evaluated is caught inside
\* process_command: the "Oops" utterance is spoken, None is returned and the
\* loop goes on to the next capture; process_command never hands an
\* Exception to the loop.
C9_EvaluationFaultIsContained ==
    /\ [][pc = "process" /\ Printed(PROCESSING_ERROR, diag')
            => /\ console' = Append(console, OOPS)
               /\ \/ pc' = "check" /\ exit_signal' = None
                  \/ pc' = "raised" /\ exc' = "KeyboardInterrupt" ]_vars
    /\ [][pc = "process" /\ pc' # "check"
            => pc' = "raised" /\ exc' = "KeyboardInterrupt" ]_vars
    /\ [][pc = "check" /\ Printed(PROCESSING_ERROR, diag)
            => pc' = "listen" /\ console' = console]_vars

C9_Witness ==
    /\ pc = "check"
    /\ HasFarewellWord(command)
    /\ ~HasGreetingWord(command)
    /\ Printed(PROCESSING_ERROR, diag)
    /\ Last(console) = OOPS
    /\ exit_signal = None

\* two fault-free invocations: the first one and the latest one
TwoCalls == iter >= 2 /\ ~probe.faulted /\ ~call.faulted

\* C10 as stated: two invocations of process_command with the same
\* transcript and the same random choice speak the same utterance and
\* return the same directive.
C10_SameTranscriptSameOutput ==
    TwoCalls /\ probe.command = call.command /\ probe.rand = call.rand
        => probe.said = call.said /\ probe.ret = call.ret

\* C10 (amended): two fault-free invocations of process_command with the
\* same transcript, the same random choice and the same clock reading speak
\* the same utterance and return the same directive, whatever was processed
\* in between.
C10_SameInputsSameOutput ==
    TwoCalls /\ probe.command = call.command /\ probe.rand = call.rand
             /\ probe.now = call.now
        => probe.said = call.said /\ probe.ret = call.ret

\* a third invocation that repeats the inputs of the first one
C10_Witness ==
    /\ iter = 3
    /\ ~probe.faulted /\ ~call.faulted
    /\ probe.command = "tell me a joke"
    /\ call.command = "tell me a joke"
    /\ probe.rand = call.rand
    /\ probe.now = call.now
    /\ Len(call.said) = 1

====
